---- MODULE Spec2Model ----
(***************************************************************************)
(* State-machine model of oe-doom-launcher (src/src/main.c): the peer      *)
(* registry, the election timer, the session role and the child process    *)
(* of one launcher, and a small network of launchers that discover each    *)
(* other's records.                                                        *)
(*                                                                         *)
(* Every global of main.c is a variable indexed by node.  A C function is  *)
(* an operator from the node's state record to the state record it leaves  *)
(* behind; a callback delivered by the GLib main loop is an action.        *)
(***************************************************************************)
EXTENDS Integers, Sequences, FiniteSets, TLC

\* ------------------------------------------------------------- bounds ----
\* Longest client registry an upsert may build.
MaxClients == 3
\* How many times the discovery layer finds an advertisement's name taken.
MaxRenames == 2
\* config.source_wait in ticks of the model's clock (main.c:696-699 accepts
\* any value > 0).
SourceWait == 1

\* ---------------------------------------------------------- constants ----
CLIENT_SERVICE_NAME == "_oe-doom-client._udp"
HOST_SERVICE_NAME == "_oe-doom-host._udp"
WAD_KEY == "wad"
CAN_HOST_KEY == "can-host"
DEFAULT_ZDOOM == "zdoom"
DEFAULT_MP_WAD == "freedm.wad"
DEFAULT_MP_MAP == "MAP01"
DEFAULT_SP_WAD == "freedoom1.wad"
DefaultPort == 5029
AVAHI_PROTO_INET == 0
AVAHI_LOOKUP_RESULT_OUR_OWN == 16

\* A NULL char* (an absent TXT value, an unset config string).
NULL == "<NULL>"

\* The launchers of the network; node 1 is the one the single-node
\* specification runs.
Nodes == {1, 2}

\* Service names are strings of bytes, compared by strcmp: "A", "AB", "B".
NameA == <<65>>
NameAB == <<65, 66>>
NameB == <<66>>
\* The names the records of the network are seen under.
ServiceNames == {NameA, NameAB, NameB}
\* The machine id each node names its advertisements with.
MachineId(n) == IF n = 1 THEN NameAB ELSE NameA

\* The browsers are created for AVAHI_IF_UNSPEC, AVAHI_PROTO_INET and the
\* default domain, so events differ in the interface only.
Interfaces == {1, 2}

VARIABLES
    pc,                     \* "main", "loop", "exit" (main returned), "abort"
    timeout_source,         \* main.c:60
    child_source,           \* main.c:61
    child_pid,              \* main.c:62
    local_client_service,   \* main.c:65, [group, name]
    local_host_service,     \* main.c:66, [group, name]
    client_service_list,    \* main.c:82, sequence of remote_service
    current_host,           \* main.c:84, <<>> (NULL) or <<remote_service>>
    single_player_running,  \* main.c:85
    can_host,               \* config.can_host
    gsources,               \* sources attached to the GLib main context
    procs,                  \* this launcher's children known to the kernel
    kill_log,               \* what the last kill() of spawn_child hit
    seen,                   \* network: records the browsers reported as NEW
    resolving               \* network: resolvers that have not called back

vars == <<pc, timeout_source, child_source, child_pid, local_client_service,
          local_host_service, client_service_list, current_host,
          single_player_running, can_host, gsources, procs, kill_log,
          seen, resolving>>

\* ------------------------------------------------------------ helpers ----
Min(S) == CHOOSE x \in S : \A y \in S : x <= y

\* The smallest id (> 0) not in use.
FreshId(used) == Min({i \in 1..(Cardinality(used) + 1) : i \notin used})

\* strcmp on byte strings: the sign of the first difference.
RECURSIVE strcmp(_, _)
strcmp(a, b) ==
    IF a = <<>> /\ b = <<>> THEN 0
    ELSE IF a = <<>> THEN -1
    ELSE IF b = <<>> THEN 1
    ELSE IF Head(a) < Head(b) THEN -1
    ELSE IF Head(a) > Head(b) THEN 1
    ELSE strcmp(Tail(a), Tail(b))

\* g_strcmp0 on two non-NULL strings.
g_strcmp0(a, b) == strcmp(a, b)

\* The node's globals as one record, and the step that stores them back.
St(n) ==
    [pc |-> pc[n], timeout_source |-> timeout_source[n],
     child_source |-> child_source[n], child_pid |-> child_pid[n],
     local_client_service |-> local_client_service[n],
     local_host_service |-> local_host_service[n],
     client_service_list |-> client_service_list[n],
     current_host |-> current_host[n],
     single_player_running |-> single_player_running[n],
     gsources |-> gsources[n],
     procs |-> procs[n], kill_log |-> kill_log[n]]

Commit(n, s) ==
    /\ pc' = [pc EXCEPT ![n] = s.pc]
    /\ timeout_source' = [timeout_source EXCEPT ![n] = s.timeout_source]
    /\ child_source' = [child_source EXCEPT ![n] = s.child_source]
    /\ child_pid' = [child_pid EXCEPT ![n] = s.child_pid]
    /\ local_client_service' =
           [local_client_service EXCEPT ![n] = s.local_client_service]
    /\ local_host_service' =
           [local_host_service EXCEPT ![n] = s.local_host_service]
    /\ client_service_list' =
           [client_service_list EXCEPT ![n] = s.client_service_list]
    /\ current_host' = [current_host EXCEPT ![n] = s.current_host]
    /\ single_player_running' =
           [single_player_running EXCEPT ![n] = s.single_player_running]
    /\ gsources' = [gsources EXCEPT ![n] = s.gsources]
    /\ procs' = [procs EXCEPT ![n] = s.procs]
    /\ kill_log' = [kill_log EXCEPT ![n] = s.kill_log]

\* A launcher whose process is gone: nothing of its state is left.
Gone(how) ==
    [pc |-> how, timeout_source |-> 0, child_source |-> 0, child_pid |-> 0,
     local_client_service |-> [group |-> "NULL", name |-> 0],
     local_host_service |-> [group |-> "NULL", name |-> 0],
     client_service_list |-> <<>>, current_host |-> <<>>,
     single_player_running |-> FALSE, gsources |-> {}, procs |-> {},
     kill_log |-> "none"]

\* g_error(): logs and aborts the launcher.
g_error(s) == Gone("abort")


\* ------------------------------------------- advertisements and timer ----
\* A local_service keeps its publication group ("NULL" when it has none) and
\* its name: 0 is a NULL name, 1 the machine id, k > 1 the k-th alternative
\* the discovery layer derives from it ("id #k").
NoService == [group |-> "NULL", name |-> 0]

\* A withdrawal that forgets the name with the group.
MutStopService(service) ==
    IF service.group # "NULL" THEN NoService ELSE service

stop_service(service) ==
    IF service.group # "NULL" THEN [service EXCEPT !.group = "NULL"]
    ELSE service

\* The ids the main context has handed out and the launcher still holds.
SourceIds(s) ==
    {g.id : g \in s.gsources} \cup ({s.timeout_source, s.child_source} \ {0})

g_source_remove(sources, id) == {g \in sources : g.id # id}

stop_source_timer(s) ==
    IF s.timeout_source # 0
    THEN [s EXCEPT !.gsources = g_source_remove(@, s.timeout_source),
                   !.timeout_source = 0]
    ELSE s

\* Arming that forgets to cancel the pending timer.
MutRestartSourceTimer(s) ==
    LET id == FreshId(SourceIds(s))
    IN  [s EXCEPT !.gsources = @ \cup {[id |-> id, kind |-> "timeout",
                                        left |-> SourceWait, pid |-> 0]},
                  !.timeout_source = id]

restart_source_timer(s) ==
    LET s1 == stop_source_timer(s)
        id == FreshId(SourceIds(s1))
    IN  [s1 EXCEPT !.gsources = @ \cup {[id |-> id, kind |-> "timeout",
                                         left |-> SourceWait, pid |-> 0]},
                   !.timeout_source = id]

\* ------------------------------------------------------ remote peers ----
remote_service_equal(a, b) ==
    /\ a.type = b.type
    /\ g_strcmp0(a.name, b.name) = 0
    /\ a.interface = b.interface
    /\ a.protocol = b.protocol

OurOwn(service) == (service.flags \div AVAHI_LOOKUP_RESULT_OUR_OWN) % 2 = 1

\* A comparator that forgets the host capability.
MutCmpRemoteService(a, b) == g_strcmp0(a.name, b.name)

cmp_remote_service(a, b) ==
    IF a.can_host # b.can_host
    THEN (IF b.can_host THEN 1 ELSE 0) - (IF a.can_host THEN 1 ELSE 0)
    ELSE g_strcmp0(a.name, b.name)

\* ---------------------------------------------------- child processes ----
\* A GStrv ends at its first NULL element.
RECURSIVE g_strv_builder_end(_)
g_strv_builder_end(strs) ==
    IF strs = <<>> \/ Head(strs) = NULL THEN <<>>
    ELSE <<Head(strs)>> \o g_strv_builder_end(Tail(strs))

Pids(s) == {p.pid : p \in s.procs}

\* A spawn that forgets to terminate the child it tracks.
MutSpawnChild(s, argv, spawn_ok) ==
    LET s2 == IF s.child_source # 0
              THEN [s EXCEPT !.gsources = g_source_remove(@, s.child_source),
                             !.child_source = 0]
              ELSE s
        pid == FreshId(Pids(s2))
        s3 == [s2 EXCEPT !.procs = @ \cup {[pid |-> pid, argv |-> argv,
                                           st |-> "running"]},
                         !.child_pid = pid]
        id == FreshId(SourceIds(s3))
    IN  IF ~spawn_ok THEN g_error(s2)
        ELSE [s3 EXCEPT !.gsources = @ \cup {[id |-> id, kind |-> "child",
                                              left |-> 0, pid |-> pid]},
                        !.child_source = id]

spawn_child(s, argv, spawn_ok) ==
    LET s1 == IF s.child_pid # 0
              THEN [s EXCEPT
                      !.kill_log = IF s.child_pid \in Pids(s) THEN "child"
                                   ELSE "reaped",
                      !.procs = {p \in @ : p.pid # s.child_pid},
                      !.child_pid = 0]
              ELSE s
        s2 == IF s1.child_source # 0
              THEN [s1 EXCEPT !.gsources = g_source_remove(@, s1.child_source),
                              !.child_source = 0]
              ELSE s1
        pid == FreshId(Pids(s2))
        s3 == [s2 EXCEPT !.procs = @ \cup {[pid |-> pid, argv |-> argv,
                                           st |-> "running"]},
                         !.child_pid = pid]
        id == FreshId(SourceIds(s3))
    IN  IF ~spawn_ok THEN g_error(s2)
        ELSE [s3 EXCEPT !.gsources = @ \cup {[id |-> id, kind |-> "child",
                                              left |-> 0, pid |-> pid]},
                        !.child_source = id]

SinglePlayerArgv ==
    g_strv_builder_end(<<DEFAULT_ZDOOM, "-iwad", DEFAULT_SP_WAD>>)

\* A single-player launch that does not look at the flag.
MutLaunchAlways(s, spawn_ok) ==
    LET s1 == [s EXCEPT !.local_host_service = stop_service(@)]
        s2 == spawn_child(s1, SinglePlayerArgv, spawn_ok)
    IN  IF s2.pc = "abort" THEN s2
        ELSE [s2 EXCEPT !.single_player_running = TRUE]

\* A single-player launch that leaves the host advertisement published.
MutLaunchSinglePlayer(s, spawn_ok) ==
    LET s2 == spawn_child(s, SinglePlayerArgv, spawn_ok)
    IN  IF ~s.single_player_running
        THEN IF s2.pc = "abort" THEN s2
             ELSE [s2 EXCEPT !.single_player_running = TRUE]
        ELSE s

launch_single_player(s, spawn_ok) ==
    LET s1 == [s EXCEPT !.local_host_service = stop_service(@)]
        s2 == spawn_child(s1, SinglePlayerArgv, spawn_ok)
    IN  IF ~s1.single_player_running
        THEN IF s2.pc = "abort" THEN s2
             ELSE [s2 EXCEPT !.single_player_running = TRUE]
        ELSE s1

JoinArgv(host) ==
    g_strv_builder_end(<<DEFAULT_ZDOOM, "-iwad", host.wad, "-join",
                         host.hostname, "-port", ToString(host.port)>>)

\* A join that leaves the host advertisement published.
MutConnectToHost(s, spawn_ok) ==
    LET s2 == spawn_child(s, JoinArgv(s.current_host[1]), spawn_ok)
    IN  IF s2.pc = "abort" THEN s2
        ELSE [s2 EXCEPT !.single_player_running = FALSE]

connect_to_host(s, spawn_ok) ==
    LET s1 == [s EXCEPT !.local_host_service = stop_service(@)]
        s2 == spawn_child(s1, JoinArgv(s1.current_host[1]), spawn_ok)
    IN  IF s2.pc = "abort" THEN s2
        ELSE [s2 EXCEPT !.single_player_running = FALSE]

HostArgv(num_players) ==
    g_strv_builder_end(<<DEFAULT_ZDOOM, "-iwad", DEFAULT_MP_WAD, "-deathmatch",
                         "+map", DEFAULT_MP_MAP, "-host",
                         ToString(num_players), "-port",
                         ToString(DefaultPort)>>)


\* ----------------------------------------------------- publication ----
\* avahi_entry_group_is_empty: a group that was just created or reset, or
\* whose records the daemon withdrew when it found their name taken.
avahi_entry_group_is_empty(group) == group \in {"EMPTY", "COLLISION"}

\* avahi_alternative_service_name: "id" -> "id #2" -> "id #3" ...
avahi_alternative_service_name(name) == name + 1

\* create_service and handle_collision (which calls create_service again) on
\* one local_service.  group_ok: avahi_entry_group_new returns a group.
\* adds: what avahi_entry_group_add_service_strlst and the commit answer, one
\* element per submission.  The result is the service left behind and
\* whether g_error was reached.
RECURSIVE create_service(_, _, _)
RECURSIVE handle_collision(_, _, _)

\* A collision handler that submits the record again under the same name.
MutHandleCollision(service, group_ok, adds) ==
    create_service(service, group_ok, adds)

handle_collision(service, group_ok, adds) ==
    create_service([service EXCEPT
                       !.name = avahi_alternative_service_name(@)],
                   group_ok, adds)

create_service(service, group_ok, adds) ==
    LET s1 == IF service.name = 0 THEN [service EXCEPT !.name = 1]
              ELSE service
        s2 == IF s1.group = "NULL" THEN [s1 EXCEPT !.group = "EMPTY"]
              ELSE s1
        reset == [s2 EXCEPT !.group = "EMPTY"]
    IN  IF s1.group = "NULL" /\ ~group_ok
        THEN [service |-> s1, fatal |-> FALSE]
        ELSE IF ~avahi_entry_group_is_empty(s2.group)
        THEN [service |-> s2, fatal |-> FALSE]
        ELSE IF Head(adds) = "COLLISION"
        THEN handle_collision(reset, group_ok, Tail(adds))
        ELSE IF Head(adds) = "ERROR"
        THEN [service |-> s2, fatal |-> TRUE]
        ELSE IF Head(adds) = "COMMIT_FAILED"
        THEN [service |-> [s2 EXCEPT !.group = "UNCOMMITED"], fatal |-> FALSE]
        ELSE [service |-> [s2 EXCEPT !.group = "REGISTERING"], fatal |-> FALSE]

\* entry_group_callback for a local_service: the group has taken the state
\* the daemon reports before the callback runs.
entry_group_callback(service, state, adds) ==
    LET s1 == [service EXCEPT !.group = state]
    IN  IF state = "COLLISION" THEN handle_collision(s1, TRUE, adds)
        ELSE [service |-> s1, fatal |-> FALSE]

\* A host launch that leaves the single-player flag as it is.
MutHostGame(s, num_players, spawn_ok, group_ok, adds) ==
    LET s1 == spawn_child(s, HostArgv(num_players), spawn_ok)
        made == create_service(s1.local_host_service, group_ok, adds)
        s3 == [s1 EXCEPT !.local_host_service = made.service]
    IN  IF s1.pc = "abort" THEN s1
        ELSE IF made.fatal THEN g_error(s3)
        ELSE s3

host_game(s, num_players, spawn_ok, group_ok, adds) ==
    LET s1 == spawn_child(s, HostArgv(num_players), spawn_ok)
        s2 == [s1 EXCEPT !.single_player_running = FALSE]
        made == create_service(s2.local_host_service, group_ok, adds)
        s3 == [s2 EXCEPT !.local_host_service = made.service]
    IN  IF s1.pc = "abort" THEN s1
        ELSE IF made.fatal THEN g_error(s3)
        ELSE s3

\* ---------------------------------------------------------- callbacks ----
\* An exit callback that leaves the single-player flag as it is.
MutOnChildExit(s, pid, spawn_ok) ==
    IF pid # s.child_pid THEN s
    ELSE launch_single_player([s EXCEPT !.child_source = 0], spawn_ok)

on_child_exit(s, pid, spawn_ok) ==
    IF pid # s.child_pid THEN s
    ELSE launch_single_player([s EXCEPT !.child_source = 0,
                                        !.single_player_running = FALSE],
                              spawn_ok)

\* countOthers(): the registered peers that are not this node's own.
other_count(list) ==
    Cardinality({i \in 1..Len(list) : ~OurOwn(list[i])})

\* A decision that falls back to single player whenever another node leads.
MutDecision(list) ==
    IF list # <<>> /\ list[1].can_host /\ OurOwn(list[1])
    THEN IF other_count(list) # 0 THEN "host" ELSE "single"
    ELSE "single"

\* The branch of on_source_timeout taken for this registry.
Decision(list) ==
    IF list # <<>> /\ list[1].can_host
    THEN IF OurOwn(list[1])
         THEN IF other_count(list) # 0 THEN "host" ELSE "single"
         ELSE "wait"
    ELSE "single"

\* A timer callback that hosts for the peers only, not counting itself.
MutOnSourceTimeout(s, id, spawn_ok, group_ok, adds) ==
    LET list == s.client_service_list
        s1 == CASE Decision(list) = "host" ->
                     host_game(s, other_count(list), spawn_ok, group_ok, adds)
                [] Decision(list) = "single" ->
                     launch_single_player(s, spawn_ok)
                [] OTHER -> s
    IN  IF s1.pc = "abort" THEN s1
        ELSE [s1 EXCEPT !.timeout_source = 0,
                        !.gsources = g_source_remove(@, id)]

\* id: the timeout source being dispatched; returning FALSE destroys it.
on_source_timeout(s, id, spawn_ok, group_ok, adds) ==
    LET list == s.client_service_list
        s1 == CASE Decision(list) = "host" ->
                     host_game(s, other_count(list) + 1, spawn_ok, group_ok,
                               adds)
                [] Decision(list) = "single" ->
                     launch_single_player(s, spawn_ok)
                [] OTHER -> s
    IN  IF s1.pc = "abort" THEN s1
        ELSE [s1 EXCEPT !.timeout_source = 0,
                        !.gsources = g_source_remove(@, id)]

\* The TXT pairs of a resolved record, read in order into the new entry.
RECURSIVE parse_txt(_, _)
parse_txt(service, txt) ==
    IF txt = <<>> THEN service
    ELSE LET key == Head(txt)[1]
             value == Head(txt)[2]
         IN  parse_txt(IF key = CAN_HOST_KEY
                       THEN [service EXCEPT !.can_host = (value = "1")]
                       ELSE IF key = WAD_KEY
                       THEN [service EXCEPT !.wad = value]
                       ELSE service,
                       Tail(txt))

\* The remote_service resolve_callback builds from its arguments.
NewRemoteService(ev) ==
    parse_txt([interface |-> ev.interface, protocol |-> ev.protocol,
               port |-> ev.port, name |-> ev.name, type |-> ev.type,
               domain |-> ev.domain, hostname |-> ev.host_name,
               wad |-> NULL, flags |-> ev.flags, can_host |-> FALSE],
              ev.txt)

\* "Remove matching entries from client list" (main.c:462-470).
RemoveMatching(list, service) ==
    SelectSeq(list, LAMBDA c : ~remote_service_equal(service, c))

\* Sorted insert that forgets the ordering and always adds at the tail.
MutSortedInsert(list, service) == Append(list, service)

\* "Sorted insert" (main.c:481-492): before the first entry the new one
\* compares less than, else at the tail.
SortedInsert(list, service) ==
    LET before == {i \in 1..Len(list) : cmp_remote_service(service, list[i]) < 0}
    IN  IF before = {} THEN Append(list, service)
        ELSE LET i == Min(before)
             IN  SubSeq(list, 1, i - 1) \o <<service>>
                     \o SubSeq(list, i, Len(list))

upsert_client(list, service) ==
    SortedInsert(RemoveMatching(list, service), service)

\* A resolution that arms the timer for the node's own record as well.
MutResolveCallback(s, ev, spawn_ok) ==
    LET service == NewRemoteService(ev)
        s1 == [s EXCEPT !.client_service_list = upsert_client(@, service)]
        s2 == connect_to_host([s EXCEPT !.current_host = <<service>>],
                              spawn_ok)
    IN  IF ev.event = "FAILURE" THEN g_error(s)
        ELSE IF ev.type = CLIENT_SERVICE_NAME
        THEN restart_source_timer(s1)
        ELSE IF ev.type = HOST_SERVICE_NAME
        THEN IF ~OurOwn(service)
             THEN IF s2.pc = "abort" THEN s2 ELSE stop_source_timer(s2)
             ELSE s
        ELSE s

resolve_callback(s, ev, spawn_ok) ==
    LET service == NewRemoteService(ev)
        s1 == [s EXCEPT !.client_service_list = upsert_client(@, service)]
        s2 == connect_to_host([s EXCEPT !.current_host = <<service>>],
                              spawn_ok)
    IN  IF ev.event = "FAILURE" THEN g_error(s)
        ELSE IF ev.type = CLIENT_SERVICE_NAME
        THEN IF ~OurOwn(service) THEN restart_source_timer(s1) ELSE s1
        ELSE IF ev.type = HOST_SERVICE_NAME
        THEN IF ~OurOwn(service)
             THEN IF s2.pc = "abort" THEN s2 ELSE stop_source_timer(s2)
             ELSE s
        ELSE s

\* The name, type and domain test of the REMOVE branch.
RemoveMatches(service, name, type, domain) ==
    /\ g_strcmp0(service.name, name) = 0
    /\ service.type = type
    /\ service.domain = domain

\* The TAILQ_FOREACH_SAFE loop of the REMOVE branch, standing at entry i.
RECURSIVE remove_clients(_, _, _, _, _)
remove_clients(s, i, name, type, domain) ==
    IF i > Len(s.client_service_list) THEN s
    ELSE LET client == s.client_service_list[i]
             s1 == IF ~OurOwn(client) THEN restart_source_timer(s) ELSE s
             s2 == [s1 EXCEPT !.client_service_list =
                        SubSeq(@, 1, i - 1) \o SubSeq(@, i + 1, Len(@))]
         IN  IF RemoveMatches(client, name, type, domain)
             THEN remove_clients(s2, i, name, type, domain)
             ELSE remove_clients(s, i + 1, name, type, domain)

\* A REMOVE branch that forgets the election when the host is gone.
MutBrowseCallback(s, ev, spawn_ok) ==
    LET s1 == remove_clients(s, 1, ev.name, ev.type, ev.domain)
        s2 == launch_single_player([s1 EXCEPT !.current_host = <<>>],
                                   spawn_ok)
    IN  IF ev.event # "REMOVE" THEN s
        ELSE IF s1.current_host # <<>>
                /\ RemoveMatches(s1.current_host[1], ev.name, ev.type,
                                 ev.domain)
        THEN s2
        ELSE s1

browse_callback(s, ev, spawn_ok) ==
    LET s1 == remove_clients(s, 1, ev.name, ev.type, ev.domain)
        s2 == launch_single_player([s1 EXCEPT !.current_host = <<>>],
                                   spawn_ok)
    IN  IF ev.event # "REMOVE" THEN s
        ELSE IF s1.current_host # <<>>
                /\ RemoveMatches(s1.current_host[1], ev.name, ev.type,
                                 ev.domain)
        THEN IF s2.pc = "abort" THEN s2 ELSE restart_source_timer(s2)
        ELSE s1

avahi_client_callback(s, state, group_ok, adds) ==
    LET made == create_service(s.local_client_service, group_ok, adds)
        s1 == [s EXCEPT !.local_client_service = made.service]
    IN  IF state = "AVAHI_CLIENT_S_RUNNING"
        THEN IF made.fatal THEN g_error(s1) ELSE s1
        ELSE IF state = "AVAHI_CLIENT_FAILURE"
        THEN Gone("exit")
        ELSE s

\* main() from launch_single_player() on: the loop runs next.
main(s, spawn_ok) ==
    LET s1 == launch_single_player(s, spawn_ok)
    IN  IF s1.pc = "abort" THEN s1 ELSE [s1 EXCEPT !.pc = "loop"]


\* ------------------------------------------------------------ inputs ----
\* What the discovery layer flags a record with: a record is our own when
\* this node's client registered it, that is when it carries this node's name.
LookupFlags(n, name) ==
    IF name = MachineId(n) THEN AVAHI_LOOKUP_RESULT_OUR_OWN ELSE 0

\* The host a record of this name resolves to, and the port it plays on.
HostnameOf(name) == IF name = NameA THEN "a.local"
                    ELSE IF name = NameAB THEN "ab.local" ELSE "b.local"
PortOf(name) == IF name = NameB THEN DefaultPort + 1 ELSE DefaultPort

FoundEvent(n, name, type, interface, txt) ==
    [event |-> "FOUND", interface |-> interface, protocol |-> AVAHI_PROTO_INET,
     name |-> name, type |-> type, domain |-> "local",
     host_name |-> HostnameOf(name), port |-> PortOf(name), txt |-> txt,
     flags |-> LookupFlags(n, name)]

\* The TXT of the client record a launcher publishes (main.c:716-718) and of
\* its host record (main.c:724-725).
ClientTxt(flag) == <<<<CAN_HOST_KEY, IF flag THEN "1" ELSE "0">>>>
HostTxt == <<<<WAD_KEY, DEFAULT_MP_WAD>>>>

\* A peer's client record says whether it can host, or leaves the key out.
PeerTxts == {<<>>, ClientTxt(TRUE), ClientTxt(FALSE)}

\* The client records node n may see resolved: its own on every interface,
\* with its own configuration; a peer's on interface 1.
ClientFound(n) ==
    {FoundEvent(n, MachineId(n), CLIENT_SERVICE_NAME, i, ClientTxt(can_host[n])) :
        i \in Interfaces}
    \cup {FoundEvent(n, name, CLIENT_SERVICE_NAME, 1, txt) :
            name \in ServiceNames \ {MachineId(n)}, txt \in PeerTxts}

\* The host records node n may see resolved; the one of "B" may come with
\* no WAD.
HostFound(n) ==
    {FoundEvent(n, name, HOST_SERVICE_NAME, 1, HostTxt) : name \in ServiceNames}
    \cup {FoundEvent(n, NameB, HOST_SERVICE_NAME, 1, <<>>)}

RemoveEvent(name, type, interface) ==
    [event |-> "REMOVE", interface |-> interface,
     protocol |-> AVAHI_PROTO_INET, name |-> name, type |-> type,
     domain |-> "local"]

RemoveEvents ==
    {RemoveEvent(name, CLIENT_SERVICE_NAME, i) :
        name \in ServiceNames, i \in Interfaces}
    \cup {RemoveEvent(name, HOST_SERVICE_NAME, 1) : name \in ServiceNames}

\* What the discovery layer answers to a submission in this specification:
\* it is accepted, or it fails for good.
AddResults == {<<"OK">>, <<"ERROR">>}

\* ----------------------------------------------------------- actions ----
Init ==
    /\ pc = [n \in Nodes |-> "main"]
    /\ timeout_source = [n \in Nodes |-> 0]
    /\ child_source = [n \in Nodes |-> 0]
    /\ child_pid = [n \in Nodes |-> 0]
    /\ local_client_service = [n \in Nodes |-> NoService]
    /\ local_host_service = [n \in Nodes |-> NoService]
    /\ client_service_list = [n \in Nodes |-> <<>>]
    /\ current_host = [n \in Nodes |-> <<>>]
    /\ single_player_running = [n \in Nodes |-> FALSE]
    /\ can_host \in {f \in [Nodes -> BOOLEAN] : f[2]}
    /\ gsources = [n \in Nodes |-> {}]
    /\ procs = [n \in Nodes |-> {}]
    /\ kill_log = [n \in Nodes |-> "none"]
    /\ seen = [n \in Nodes |-> {}]
    /\ resolving = [n \in Nodes |-> {}]

NetUnchanged == UNCHANGED <<can_host, seen, resolving>>

\* main() reaches g_main_loop_run.
Main(n) ==
    /\ pc[n] = "main"
    /\ \E spawn_ok \in BOOLEAN : Commit(n, main(St(n), spawn_ok))
    /\ NetUnchanged

\* The discovery client reports AVAHI_CLIENT_S_RUNNING.
AvahiClientRunning(n) ==
    /\ pc[n] = "loop"
    /\ \E group_ok \in BOOLEAN, adds \in AddResults :
          Commit(n, avahi_client_callback(St(n), "AVAHI_CLIENT_S_RUNNING",
                                          group_ok, adds))
    /\ NetUnchanged

\* The discovery daemon is gone: the loop quits and main returns.
AvahiClientFailure(n) ==
    /\ pc[n] = "loop"
    /\ Commit(n, avahi_client_callback(St(n), "AVAHI_CLIENT_FAILURE", TRUE,
                                       <<"OK">>))
    /\ NetUnchanged

\* A resolver calls back with a record.
ResolveFound(n) ==
    /\ pc[n] = "loop"
    /\ \E ev \in ClientFound(n) \cup HostFound(n), spawn_ok \in BOOLEAN :
          LET s == resolve_callback(St(n), ev, spawn_ok)
          IN  /\ Len(s.client_service_list) <= MaxClients
              /\ Commit(n, s)
    /\ NetUnchanged

\* A resolver calls back with AVAHI_RESOLVER_FAILURE.
ResolveFailure(n) ==
    /\ pc[n] = "loop"
    /\ Commit(n, resolve_callback(St(n), [event |-> "FAILURE"], TRUE))
    /\ NetUnchanged

\* A browser reports AVAHI_BROWSER_REMOVE.
BrowseRemove(n) ==
    /\ pc[n] = "loop"
    /\ \E ev \in RemoveEvents, spawn_ok \in BOOLEAN :
          Commit(n, browse_callback(St(n), ev, spawn_ok))
    /\ NetUnchanged

\* One tick of the clock: every pending timeout gets closer.
Tick(n) ==
    /\ pc[n] = "loop"
    /\ \E g \in gsources[n] : g.kind = "timeout" /\ g.left > 0
    /\ gsources' = [gsources EXCEPT ![n] =
          {IF g.kind = "timeout" /\ g.left > 0
           THEN [g EXCEPT !.left = @ - 1] ELSE g : g \in @}]
    /\ UNCHANGED <<pc, timeout_source, child_source, child_pid,
                   local_client_service, local_host_service,
                   client_service_list, current_host, single_player_running,
                   procs, kill_log, can_host, seen, resolving>>

\* The main loop dispatches a timeout source whose time has come.
SourceTimeout(n) ==
    /\ pc[n] = "loop"
    /\ \E g \in gsources[n], spawn_ok \in BOOLEAN, group_ok \in BOOLEAN,
          adds \in AddResults :
          /\ g.kind = "timeout" /\ g.left = 0
          /\ Commit(n, on_source_timeout(St(n), g.id, spawn_ok, group_ok, adds))
    /\ NetUnchanged

\* The game process ends by itself and waits to be reaped.
ChildExits(n) ==
    /\ pc[n] = "loop"
    /\ \E p \in procs[n] :
          /\ p.st = "running"
          /\ procs' = [procs EXCEPT ![n] =
                (@ \ {p}) \cup {[p EXCEPT !.st = "zombie"]}]
    /\ UNCHANGED <<pc, timeout_source, child_source, child_pid,
                   local_client_service, local_host_service,
                   client_service_list, current_host, single_player_running,
                   gsources, kill_log, can_host, seen, resolving>>

\* The child watch reaps the process it watches and calls on_child_exit;
\* the watch is gone once it has fired.
ChildWatch(n) ==
    /\ pc[n] = "loop"
    /\ \E g \in gsources[n], spawn_ok \in BOOLEAN :
          /\ g.kind = "child"
          /\ \E p \in procs[n] : p.pid = g.pid /\ p.st = "zombie"
          /\ LET s == [St(n) EXCEPT
                          !.procs = {p \in @ : p.pid # g.pid},
                          !.gsources = g_source_remove(@, g.id)]
             IN  Commit(n, on_child_exit(s, g.pid, spawn_ok))
    /\ NetUnchanged

\* One launcher and everything its environment can deliver to it.
Launcher(n) ==
    \/ Main(n)
    \/ AvahiClientRunning(n)
    \/ AvahiClientFailure(n)
    \/ ResolveFound(n)
    \/ ResolveFailure(n)
    \/ BrowseRemove(n)
    \/ Tick(n)
    \/ SourceTimeout(n)
    \/ ChildExits(n)
    \/ ChildWatch(n)

Next == Launcher(1)

Spec == Init /\ [][Next]_vars


\* ------------------------------------------------- launchers on a LAN ----
\* Every node runs the launcher with the default configuration and the
\* discovery layer carries their records: a record is <<owner, type>>, its
\* name the owner's machine id.  Processes start and stay up and publications
\* are accepted; a node may lose its discovery daemon.
NetInit == Init /\ \A n \in Nodes : can_host[n]

\* A record is on the network while its owner keeps it published.
Published(r) ==
    /\ pc[r[1]] = "loop"
    /\ IF r[2] = CLIENT_SERVICE_NAME
       THEN local_client_service[r[1]].group = "REGISTERING"
       ELSE local_host_service[r[1]].group = "REGISTERING"

Records == Nodes \X {CLIENT_SERVICE_NAME, HOST_SERVICE_NAME}

\* What node n resolves record r to.
Resolved(n, r) ==
    FoundEvent(n, MachineId(r[1]), r[2], 1,
               IF r[2] = CLIENT_SERVICE_NAME THEN ClientTxt(can_host[r[1]])
               ELSE HostTxt)

NetStart(n) ==
    /\ pc[n] = "main"
    /\ Commit(n, main(St(n), TRUE))
    /\ NetUnchanged

NetClientRunning(n) ==
    /\ pc[n] = "loop"
    /\ local_client_service[n].group = "NULL"
    /\ Commit(n, avahi_client_callback(St(n), "AVAHI_CLIENT_S_RUNNING", TRUE,
                                       <<"OK">>))
    /\ NetUnchanged

\* The node loses its discovery daemon: the loop quits, the launcher ends
\* and its records leave the network.
NetClientFailure(n) ==
    /\ pc[n] = "loop"
    /\ Commit(n, avahi_client_callback(St(n), "AVAHI_CLIENT_FAILURE", TRUE,
                                       <<"OK">>))
    /\ seen' = [seen EXCEPT ![n] = {}]
    /\ resolving' = [resolving EXCEPT ![n] = {}]
    /\ UNCHANGED can_host

\* AVAHI_BROWSER_NEW: browse_callback starts a resolver and changes nothing
\* else (main.c:536-548).
NetBrowseNew(n) ==
    /\ pc[n] = "loop"
    /\ \E r \in Records :
          /\ Published(r)
          /\ r \notin seen[n]
          /\ seen' = [seen EXCEPT ![n] = @ \cup {r}]
          /\ resolving' = [resolving EXCEPT ![n] = @ \cup {r}]
    /\ UNCHANGED <<pc, timeout_source, child_source, child_pid,
                   local_client_service, local_host_service,
                   client_service_list, current_host, single_player_running,
                   can_host, gsources, procs, kill_log>>

\* The resolver of a record calls back with AVAHI_RESOLVER_FOUND.
NetResolve(n) ==
    /\ pc[n] = "loop"
    /\ \E r \in resolving[n] :
          /\ Commit(n, resolve_callback(St(n), Resolved(n, r), TRUE))
          /\ resolving' = [resolving EXCEPT ![n] = @ \ {r}]
    /\ UNCHANGED <<can_host, seen>>

\* AVAHI_BROWSER_REMOVE for a record its owner has withdrawn.
NetBrowseRemove(n) ==
    /\ pc[n] = "loop"
    /\ \E r \in seen[n] \ resolving[n] :
          /\ ~Published(r)
          /\ Commit(n, browse_callback(St(n),
                                       RemoveEvent(MachineId(r[1]), r[2], 1),
                                       TRUE))
          /\ seen' = [seen EXCEPT ![n] = @ \ {r}]
    /\ UNCHANGED <<can_host, resolving>>

NetSourceTimeout(n) ==
    /\ pc[n] = "loop"
    /\ \E g \in gsources[n] :
          /\ g.kind = "timeout" /\ g.left = 0
          /\ Commit(n, on_source_timeout(St(n), g.id, TRUE, TRUE, <<"OK">>))
    /\ NetUnchanged

NetNext ==
    \E n \in Nodes :
        \/ NetStart(n)
        \/ NetClientRunning(n)
        \/ NetClientFailure(n)
        \/ NetBrowseNew(n)
        \/ NetResolve(n)
        \/ NetBrowseRemove(n)
        \/ Tick(n)
        \/ NetSourceTimeout(n)

NetSpec == NetInit /\ [][NetNext]_vars

\* ------------------------------------------- publication and renames ----
\* One host-capable launcher, a peer "B" that comes and goes, and a discovery
\* layer that may find the name of an advertisement taken, when the record is
\* submitted or later, MaxRenames times at most.  Processes start, groups are
\* created and the daemon stays up.
PubInit == Init /\ can_host[1]

\* The last name a collision may lead to.
LastName == 1 + MaxRenames

\* The name create_service submits first.
FirstName(service) == IF service.name = 0 THEN 1 ELSE service.name

\* k collisions, then the record is accepted.
Collisions(k) == [i \in 1..(k + 1) |-> IF i <= k THEN "COLLISION" ELSE "OK"]

\* What the discovery layer may answer to the submissions of a service.
PubAdds(service) ==
    {Collisions(k) : k \in 0..(LastName - FirstName(service))}

PubStart(n) ==
    /\ pc[n] = "main"
    /\ Commit(n, main(St(n), TRUE))
    /\ NetUnchanged

PubClientRunning(n) ==
    /\ pc[n] = "loop"
    /\ local_client_service[n].group = "NULL"
    /\ \E adds \in PubAdds(local_client_service[n]) :
          Commit(n, avahi_client_callback(St(n), "AVAHI_CLIENT_S_RUNNING",
                                          TRUE, adds))
    /\ NetUnchanged

\* What the daemon may report for a committed group: the records are
\* established after probing, or their name is found taken.
GroupReports(service) ==
    (IF service.group = "REGISTERING" THEN {"ESTABLISHED"} ELSE {})
    \cup (IF /\ service.group \in {"REGISTERING", "ESTABLISHED"}
              /\ service.name < LastName
           THEN {"COLLISION"} ELSE {})

\* What the discovery layer may answer to the submissions the callback makes
\* for a report: none but after a collision, for the renamed service.
ReportAdds(service, state) ==
    IF state = "COLLISION"
    THEN PubAdds([service EXCEPT
                     !.name = avahi_alternative_service_name(@)])
    ELSE {<<"OK">>}

\* The state entry_group_callback leaves behind for a service of node n.
AfterGroupCallback(n, field, service, state, adds) ==
    LET made == entry_group_callback(service, state, adds)
        s == IF field = "client"
             THEN [St(n) EXCEPT !.local_client_service = made.service]
             ELSE [St(n) EXCEPT !.local_host_service = made.service]
    IN  IF made.fatal THEN g_error(s) ELSE s

\* The group of the client advertisement changes state.
ClientGroupState(n) ==
    /\ pc[n] = "loop"
    /\ \E state \in GroupReports(local_client_service[n]) :
          \E adds \in ReportAdds(local_client_service[n], state) :
              Commit(n, AfterGroupCallback(n, "client",
                                           local_client_service[n], state,
                                           adds))
    /\ NetUnchanged

\* The group of the host advertisement changes state.
HostGroupState(n) ==
    /\ pc[n] = "loop"
    /\ \E state \in GroupReports(local_host_service[n]) :
          \E adds \in ReportAdds(local_host_service[n], state) :
              Commit(n, AfterGroupCallback(n, "host", local_host_service[n],
                                           state, adds))
    /\ NetUnchanged

\* The node's own client record or the one of "B" resolves on interface 1.
PubResolveFound(n) ==
    /\ pc[n] = "loop"
    /\ \E ev \in ClientFound(n) :
          /\ ev.interface = 1
          /\ ev.name \in {MachineId(n), NameB}
          /\ Commit(n, resolve_callback(St(n), ev, TRUE))
    /\ NetUnchanged

\* "B" leaves.
PubBrowseRemove(n) ==
    /\ pc[n] = "loop"
    /\ Commit(n, browse_callback(St(n),
                                 RemoveEvent(NameB, CLIENT_SERVICE_NAME, 1),
                                 TRUE))
    /\ NetUnchanged

PubSourceTimeout(n) ==
    /\ pc[n] = "loop"
    /\ \E g \in gsources[n] :
          /\ g.kind = "timeout" /\ g.left = 0
          /\ \E adds \in PubAdds(local_host_service[n]) :
                Commit(n, on_source_timeout(St(n), g.id, TRUE, TRUE, adds))
    /\ NetUnchanged

PubNext ==
    \/ PubStart(1)
    \/ PubClientRunning(1)
    \/ ClientGroupState(1)
    \/ HostGroupState(1)
    \/ PubResolveFound(1)
    \/ PubBrowseRemove(1)
    \/ Tick(1)
    \/ PubSourceTimeout(1)

\* The daemon reports the outcome of every probe.
PubSpec ==
    /\ PubInit
    /\ [][PubNext]_vars
    /\ WF_vars(ClientGroupState(1))
    /\ WF_vars(HostGroupState(1))

\* ------------------------------------------------------ observations ----
\* The argv of the child the launcher tracks (<<>> when it tracks none).
TrackedArgv(s) ==
    LET ps == {p \in s.procs : p.pid = s.child_pid}
    IN  IF ps = {} THEN <<>> ELSE (CHOOSE p \in ps : TRUE).argv

IsHostArgv(argv) == Len(argv) >= 8 /\ argv[7] = "-host"
IsJoinArgv(argv) == Len(argv) >= 7 /\ argv[4] = "-join"

\* The session role: what the tracked child was started as.
RoleOf(s) ==
    IF s.child_pid = 0 THEN "Idle"
    ELSE IF TrackedArgv(s) = SinglePlayerArgv THEN "SinglePlayer"
    ELSE IF IsHostArgv(TrackedArgv(s)) THEN "Host"
    ELSE IF IsJoinArgv(TrackedArgv(s)) THEN "Client"
    ELSE "None"

Role(n) == RoleOf(St(n))

\* The timeout sources pending in the main context.
TimeoutsOf(s) == {g \in s.gsources : g.kind = "timeout"}

\* The election ordering of section 4.3 on (canHost, serviceName), written
\* without the comparator of the code.
Precedes(a, b) ==
    \/ a.can_host /\ ~b.can_host
    \/ a.can_host = b.can_host /\ strcmp(a.name, b.name) <= 0

Identity(c) == <<c.name, c.type, c.domain, c.interface, c.protocol>>

Sorted(list) ==
    \A i, j \in 1..Len(list) : i < j => Precedes(list[i], list[j])

NoDuplicates(list) ==
    \A i, j \in 1..Len(list) : i # j => Identity(list[i]) # Identity(list[j])

\* The launchers whose loop is running.
Running == {n \in Nodes : pc[n] = "loop"}

\* What a callback delivered now at node n leaves behind (the loop of n is
\* running): resolve_callback on ev, browse_callback on ev, on_source_timeout
\* for the pending source g.
AfterResolve(n, ev) == resolve_callback(St(n), ev, TRUE)
AfterBrowse(n, ev) == browse_callback(St(n), ev, TRUE)
AfterTimeout(n, g, group_ok, adds) ==
    on_source_timeout(St(n), g.id, TRUE, group_ok, adds)

\* ------------------------------------------------------------ claims ----
\* C1: after any sequence of client-record resolutions and removals the
\* registry is sorted by the election ordering and holds at most one entry
\* per identity; resolving a client record leaves exactly one entry of its
\* identity, the newly resolved one.
C1_RegistrySortedUnique ==
    \A n \in Nodes :
        /\ Sorted(client_service_list[n])
        /\ NoDuplicates(client_service_list[n])
        /\ n \in Running =>
             \A ev \in ClientFound(n) :
                LET list == AfterResolve(n, ev).client_service_list
                    same == {i \in 1..Len(list) :
                                Identity(list[i]) = Identity(NewRemoteService(ev))}
                IN  /\ Cardinality(same) = 1
                    /\ \A i \in same : list[i] = NewRemoteService(ev)

\* C1 witness: a full registry that mixes hosts and non-hosts, holds one
\* name on two interfaces and holds "A" resolved as a non-host.
C1_Witness ==
    LET list == client_service_list[1]
    IN  /\ Len(list) = MaxClients
        /\ list[1].can_host /\ ~list[MaxClients].can_host
        /\ \E i, j \in 1..Len(list) :
              i # j /\ list[i].name = list[j].name
        /\ \E i \in 1..Len(list) : list[i].name = NameA /\ ~list[i].can_host

\* C2: the first registry entry is the minimum of the registered candidates
\* under the election ordering, whatever order their events came in: its
\* (canHost, serviceName) is the least key of the set of registered keys.
Key(c) == <<c.can_host, c.name>>

KeyPrecedes(k, l) ==
    \/ k[1] /\ ~l[1]
    \/ k[1] = l[1] /\ strcmp(k[2], l[2]) <= 0

Keys(list) == {Key(list[i]) : i \in 1..Len(list)}

MinKey(keys) == CHOOSE k \in keys : \A l \in keys : KeyPrecedes(k, l)

C2_BestIsMinimum ==
    \A n \in Nodes :
        LET list == client_service_list[n]
        IN  list # <<>> => Key(list[1]) = MinKey(Keys(list))

\* C2 witness: a host-capable "B" leads a full registry that also holds the
\* smaller names "A" and "AB", so the winner is not simply the least name.
C2_Witness ==
    LET list == client_service_list[1]
    IN  /\ Len(list) = MaxClients
        /\ Key(list[1]) = <<TRUE, NameB>>
        /\ \E i, j \in 2..Len(list) :
              list[i].name = NameA /\ list[j].name = NameAB

\* C4: at most one election timer is pending and it is the one
\* timeout_source names; a non-self client resolution or removal leaves
\* exactly one pending timer, with the whole quiet period ahead of it, even
\* when one was pending; the timer callback leaves none pending, so the
\* events of one burst are followed by one run of the decision.
NonSelfChange(n, ev) ==
    \/ /\ ev.event = "FOUND"
       /\ ev.type = CLIENT_SERVICE_NAME
       /\ ~OurOwn(NewRemoteService(ev))
    \/ /\ ev.event = "REMOVE"
       /\ \E i \in 1..Len(client_service_list[n]) :
             LET c == client_service_list[n][i]
             IN  /\ ~OurOwn(c)
                 /\ <<c.name, c.type, c.domain>> = <<ev.name, ev.type, ev.domain>>

OneFreshTimer(s) ==
    /\ Cardinality(TimeoutsOf(s)) = 1
    /\ \A g \in TimeoutsOf(s) : g.id = s.timeout_source /\ g.left = SourceWait

C4_SingleTimer ==
    \A n \in Nodes :
        /\ Cardinality(TimeoutsOf(St(n))) <= 1
        /\ \A g \in TimeoutsOf(St(n)) : g.id = timeout_source[n]
        /\ timeout_source[n] # 0 => TimeoutsOf(St(n)) # {}
        /\ n \in Running =>
             /\ \A ev \in ClientFound(n) :
                   NonSelfChange(n, ev) => OneFreshTimer(AfterResolve(n, ev))
             /\ \A ev \in RemoveEvents :
                   (NonSelfChange(n, ev) /\ AfterBrowse(n, ev).pc = "loop")
                       => OneFreshTimer(AfterBrowse(n, ev))
             /\ \A g \in TimeoutsOf(St(n)), group_ok \in BOOLEAN,
                  adds \in AddResults :
                   TimeoutsOf(AfterTimeout(n, g, group_ok, adds)) = {}

\* C4 witness: a timer is pending, its quiet period partly gone, while the
\* registry holds two non-self entries: the next non-self event re-arms it.
C4_Witness ==
    /\ 1 \in Running
    /\ other_count(client_service_list[1]) >= 2
    /\ \E g \in TimeoutsOf(St(1)) : g.left < SourceWait
    /\ Role(1) = "Host"

\* C5: a launcher never has two child processes at a time, whatever role
\* transitions and child exits happen: the process a spawn starts is the only
\* one the launcher has, running or waiting to be reaped.
Children(s) == {p \in s.procs : p.st = "running"}

C5_OneChild ==
    \A n \in Nodes :
        /\ Cardinality(Children(St(n))) <= 1
        /\ Cardinality(procs[n]) <= 1

\* C5 witness: the single-player game is the only child after the launcher
\* terminated the child it tracked before.
C5_Witness ==
    /\ Role(1) = "SinglePlayer"
    /\ kill_log[1] = "child"
    /\ Cardinality(Children(St(1))) = 1
    /\ current_host[1] # <<>>

\* C6: a removal event for the identity of CurrentHost, delivered while the
\* node is a Client, clears CurrentHost, makes the single-player process the
\* tracked child and leaves the election timer pending.
RemovesCurrentHost(n, ev) ==
    /\ current_host[n] # <<>>
    /\ Identity(current_host[n][1])
          = <<ev.name, ev.type, ev.domain, ev.interface, ev.protocol>>

C6_HostRemovedInClient ==
    \A n \in Running : \A ev \in RemoveEvents :
        LET s == AfterBrowse(n, ev)
        IN  (RemovesCurrentHost(n, ev) /\ Role(n) = "Client" /\ s.pc = "loop")
                => /\ s.current_host = <<>>
                   /\ RoleOf(s) = "SinglePlayer"
                   /\ \E p \in s.procs : p.pid = s.child_pid /\ p.st = "running"
                   /\ OneFreshTimer(s)

\* C6 witness: a node that joined a host and then lost it: single player
\* again after terminating the join process, no CurrentHost, the timer
\* pending with the whole quiet period ahead, nobody else registered.
C6_Witness ==
    /\ Role(1) = "SinglePlayer"
    /\ kill_log[1] = "child"
    /\ current_host[1] = <<>>
    /\ client_service_list[1] = <<>>
    /\ local_host_service[1] = NoService
    /\ OneFreshTimer(St(1))

\* The timer callback is about to run at node n for the pending source g.
Fires(n, g) == n \in Running /\ g \in TimeoutsOf(St(n)) /\ g.left = 0

BestIsSelf(n) ==
    /\ client_service_list[n] # <<>>
    /\ OurOwn(client_service_list[n][1])

BestIsOther(n) ==
    /\ client_service_list[n] # <<>>
    /\ ~OurOwn(client_service_list[n][1])

CountOthers(n) ==
    Len(SelectSeq(client_service_list[n], LAMBDA c : ~OurOwn(c)))

\* The multiplayer-host command line for a player count (main.c:219-230).
HostCommand(players) ==
    <<DEFAULT_ZDOOM, "-iwad", DEFAULT_MP_WAD, "-deathmatch", "+map",
      DEFAULT_MP_MAP, "-host", ToString(players), "-port",
      ToString(DefaultPort)>>

HostsAfter(n, s) ==
    /\ RoleOf(s) = "Host"
    /\ TrackedArgv(s) = HostCommand(CountOthers(n) + 1)
    /\ \E p \in s.procs : p.pid = s.child_pid /\ p.st = "running"

\* C7 as stated: the timer fires, best() is the self entry and
\* countOthers() > 0; then the node is Host and runs the host process with
\* player count countOthers() + 1.
C7_Original ==
    \A n \in Nodes : \A g \in gsources[n], group_ok \in BOOLEAN,
                        adds \in AddResults :
        LET s == AfterTimeout(n, g, group_ok, adds)
        IN  (Fires(n, g) /\ BestIsSelf(n) /\ CountOthers(n) > 0
                /\ s.pc = "loop")
                => HostsAfter(n, s)

\* C7 amended: the timer fires, best() is the self entry, it can host and
\* countOthers() > 0; then the node is Host and runs the host process with
\* player count countOthers() + 1.
C7_HostWhenBestSelfCanHost ==
    \A n \in Nodes : \A g \in gsources[n], group_ok \in BOOLEAN,
                        adds \in AddResults :
        LET s == AfterTimeout(n, g, group_ok, adds)
        IN  (Fires(n, g) /\ BestIsSelf(n) /\ client_service_list[n][1].can_host
                /\ CountOthers(n) > 0 /\ s.pc = "loop")
                => HostsAfter(n, s)

\* C7 witness: the node hosts a game for three players: itself and the two
\* peers registered, neither of which can host; no timer is pending.
C7_Witness ==
    /\ Role(1) = "Host"
    /\ TrackedArgv(St(1)) = HostCommand(3)
    /\ CountOthers(1) = 2
    /\ BestIsSelf(1)
    /\ \A i \in 2..Len(client_service_list[1]) :
          ~client_service_list[1][i].can_host
    /\ TimeoutsOf(St(1)) = {}

\* What C8 says stays as it was across the timer callback.
Kept(s) ==
    <<RoleOf(s), s.child_pid, s.procs, s.child_source, s.current_host,
      s.local_client_service, s.local_host_service, s.single_player_running>>

\* C8 as stated: the timer fires and best() is a non-self entry; then the
\* role, the tracked child, CurrentHost and both advertisements are as
\* before.
C8_Original ==
    \A n \in Nodes : \A g \in gsources[n], group_ok \in BOOLEAN,
                        adds \in AddResults :
        LET s == AfterTimeout(n, g, group_ok, adds)
        IN  (Fires(n, g) /\ BestIsOther(n) /\ s.pc = "loop")
                => Kept(s) = Kept(St(n))

\* C8 amended: the timer fires and best() is a non-self entry that can
\* host; then the role, the tracked child, CurrentHost and both
\* advertisements are as before.
C8_WaitForBetterHost ==
    \A n \in Nodes : \A g \in gsources[n], group_ok \in BOOLEAN,
                        adds \in AddResults :
        LET s == AfterTimeout(n, g, group_ok, adds)
        IN  (Fires(n, g) /\ BestIsOther(n)
                /\ client_service_list[n][1].can_host)
                => /\ s.pc = "loop"
                   /\ Kept(s) = Kept(St(n))

\* C8 witness: the timer is due at a node that hosts a game and has now
\* registered "A", a host-capable peer that precedes it.
C8_Witness ==
    /\ \E g \in gsources[1] : Fires(1, g)
    /\ Role(1) = "Host"
    /\ local_host_service[1].group = "REGISTERING"
    /\ BestIsOther(1)
    /\ Key(client_service_list[1][1]) = <<TRUE, NameA>>
    /\ \E i \in 2..Len(client_service_list[1]) :
          OurOwn(client_service_list[1][i])

\* C9: the timer fires while countOthers() = 0 (the registry is empty or
\* holds only self entries); then the node is in SinglePlayer after the
\* callback and has no host advertisement.
C9_AloneMeansSinglePlayer ==
    \A n \in Nodes : \A g \in gsources[n], group_ok \in BOOLEAN,
                        adds \in AddResults :
        LET s == AfterTimeout(n, g, group_ok, adds)
        IN  (Fires(n, g) /\ CountOthers(n) = 0 /\ s.pc = "loop")
                => /\ RoleOf(s) = "SinglePlayer"
                   /\ s.single_player_running
                   /\ s.local_host_service.group = "NULL"

\* C9 witness: the timer is due at a node that hosts a game, advertises it
\* and has only its own entry left in the registry.
C9_Witness ==
    /\ \E g \in gsources[1] : Fires(1, g)
    /\ Role(1) = "Host"
    /\ local_host_service[1].group = "REGISTERING"
    /\ client_service_list[1] # <<>>
    /\ CountOthers(1) = 0

\* The join command line against a host record (main.c:196-203).
JoinCommand(host) ==
    <<DEFAULT_ZDOOM, "-iwad">>
        \o (IF host.wad = NULL THEN <<>> ELSE <<host.wad>>)
        \o <<"-join", host.hostname, "-port", ToString(host.port)>>

\* C10: a host record that is not the node's own resolves; then it is
\* CurrentHost, no election timer is pending, the host advertisement is
\* withdrawn and the tracked child is the join process against the record's
\* hostname, port and WAD.  A host record that is the node's own changes
\* nothing.
C10_HostRecordMakesClient ==
    \A n \in Running : \A ev \in HostFound(n) :
        LET s == AfterResolve(n, ev)
            host == NewRemoteService(ev)
        IN  IF OurOwn(host) THEN s = St(n)
            ELSE s.pc = "loop"
                    => /\ s.current_host = <<host>>
                       /\ TimeoutsOf(s) = {}
                       /\ s.timeout_source = 0
                       /\ s.local_host_service.group = "NULL"
                       /\ TrackedArgv(s) = JoinCommand(host)
                       /\ \E p \in s.procs :
                             p.pid = s.child_pid /\ p.st = "running"

\* C3: in a system of several launchers that all see the same candidates,
\* once no discovery event is outstanding and no election timer is pending,
\* exactly one node is Host, and it is the node that is best() under the
\* election ordering.
Quiescent ==
    \A n \in Nodes :
        /\ pc[n] = "loop"
        /\ local_client_service[n].group = "REGISTERING"
        /\ seen[n] = {r \in Records : Published(r)}
        /\ resolving[n] = {}
        /\ TimeoutsOf(St(n)) = {}
        /\ Keys(client_service_list[n])
              = {<<can_host[m], MachineId(m)>> : m \in Nodes}

Hosts == {n \in Nodes : Role(n) = "Host"}

Winner ==
    CHOOSE n \in Nodes :
        \A m \in Nodes : KeyPrecedes(<<can_host[n], MachineId(n)>>,
                                     <<can_host[m], MachineId(m)>>)

C3_ExactlyOneHost == Quiescent => Hosts = {Winner}

\* The child watch g of node n is due: the process it watches has exited.
Exited(n, g) ==
    /\ n \in Running
    /\ g \in gsources[n]
    /\ g.kind = "child"
    /\ \E p \in procs[n] : p.pid = g.pid /\ p.st = "zombie"

\* What the child watch g leaves behind: the process is reaped, the watch is
\* gone and on_child_exit has run.
AfterChildExit(n, g) ==
    on_child_exit([St(n) EXCEPT !.procs = {p \in @ : p.pid # g.pid},
                                !.gsources = g_source_remove(@, g.id)],
                  g.pid, TRUE)

\* C11: in every role, when the exit of the tracked child is reported the
\* node re-enters SinglePlayer: a new single-player process is running and
\* tracked, the flag is set for it, and the host advertisement is withdrawn.
C11_ExitFallsBackToSinglePlayer ==
    \A n \in Nodes : \A g \in gsources[n] :
        LET s == AfterChildExit(n, g)
        IN  (Exited(n, g) /\ g.pid = child_pid[n] /\ s.pc = "loop")
                => /\ RoleOf(s) = "SinglePlayer"
                   /\ s.single_player_running
                   /\ s.local_host_service.group = "NULL"
                   /\ \E p \in s.procs : /\ p.pid = s.child_pid
                                         /\ p.st = "running"
                                         /\ p.argv = SinglePlayerArgv
                   /\ \E w \in s.gsources : w.kind = "child" /\ w.pid = s.child_pid

\* C11 witness: the host process of a node that advertises its game has
\* exited and its child watch is due.
C11_Witness ==
    /\ \E g \in gsources[1] : Exited(1, g) /\ g.pid = child_pid[1]
    /\ Role(1) = "Host"
    /\ local_host_service[1].group = "REGISTERING"

\* C12: the host advertisement has a publication group only while the node
\* is in the Host role; in SinglePlayer, in Client and before any role it
\* has none.
C12_HostAdOnlyInHost ==
    \A n \in Nodes :
        local_host_service[n].group # "NULL" => Role(n) = "Host"

\* C12 witness: a node that hosted and advertised a game has joined another
\* host since; its advertisement keeps its name and has no group.
C12_Witness ==
    /\ Role(1) = "Client"
    /\ local_host_service[1].name # 0
    /\ local_host_service[1].group = "NULL"

\* The registry entries of node n with the identity a REMOVE event names.
Named(n, ev) ==
    {i \in 1..Len(client_service_list[n]) :
        Identity(client_service_list[n][i])
            = <<ev.name, ev.type, ev.domain, ev.interface, ev.protocol>>}

\* The pending timers with the time each has left, and the id the launcher
\* holds.
TimerState(s) == <<TimeoutsOf(s), s.timeout_source>>

\* C13: the resolution of a client record flagged as the node's own, and the
\* removal of a registered one, leave the election timer as it was, pending
\* or not; the same event for a record that is not the node's own leaves the
\* timer pending with the whole quiet period ahead.
C13_SelfEventsNeverArm ==
    \A n \in Running :
        /\ \A ev \in ClientFound(n) :
              IF OurOwn(NewRemoteService(ev))
              THEN TimerState(AfterResolve(n, ev)) = TimerState(St(n))
              ELSE OneFreshTimer(AfterResolve(n, ev))
        /\ \A ev \in RemoveEvents : \A i \in Named(n, ev) :
              IF OurOwn(client_service_list[n][i])
              THEN TimerState(AfterBrowse(n, ev)) = TimerState(St(n))
              ELSE OneFreshTimer(AfterBrowse(n, ev))

\* C13 witness: the timer is due while the registry holds the node's own
\* record on both interfaces next to a peer's: the own record may resolve
\* again or go while the timer is pending.
C13_Witness ==
    /\ \E g \in gsources[1] : Fires(1, g)
    /\ CountOthers(1) = 1
    /\ Len(client_service_list[1]) = 3

\* The registry of node n without the entries carrying all five identity
\* components of a REMOVE event.
WithoutNamed(n, ev) ==
    LET Other(c) ==
            Identity(c) # <<ev.name, ev.type, ev.domain, ev.interface,
                            ev.protocol>>
    IN  SelectSeq(client_service_list[n], Other)

\* C14: a removal event takes out of the registry exactly the entries that
\* match it on name, type, domain, interface and protocol, every other entry
\* stays (one with the same name, type and domain on another interface
\* included), and the timer is restarted if and only if one of the entries
\* taken out is not the node's own.
C14_RemoveByFullIdentity ==
    \A n \in Running : \A ev \in RemoveEvents :
        LET s == AfterBrowse(n, ev)
        IN  (ev.type = CLIENT_SERVICE_NAME /\ s.pc = "loop") =>
              /\ s.client_service_list = WithoutNamed(n, ev)
              /\ IF \E i \in Named(n, ev) : ~OurOwn(client_service_list[n][i])
                 THEN OneFreshTimer(s)
                 ELSE TimerState(s) = TimerState(St(n))

\* C15: a resolver failure is recoverable: the launcher keeps running and its
\* registry, CurrentHost, role, child process and election timer are the same
\* after the resolver's callback as before it.
C15_ResolveFailureRecoverable ==
    \A n \in Running :
        resolve_callback(St(n), [event |-> "FAILURE"], TRUE) = St(n)

\* C16: a failure to create the publication group is fatal: no launcher whose
\* loop is running is in Host without a publication group on its host
\* advertisement.
C16_GroupFailureIsFatal ==
    \A n \in Nodes :
        (pc[n] = "loop" /\ Role(n) = "Host")
            => local_host_service[n].group # "NULL"

\* The advertisements of a launcher.
Services(n) == {local_client_service[n], local_host_service[n]}

\* An advertisement submitted under a name and waiting for the daemon.
Submitted(service, name) ==
    service = [group |-> "REGISTERING", name |-> name]

\* Every collision renames once and the record is submitted again: a
\* submission answered by k collisions leaves the record submitted under the
\* k-th alternative of the name it started with, and a collision reported
\* for a committed group, followed by k more, under the (k+1)-th.
RenamedPerCollision ==
    \A n \in Running : \A service \in Services(n) :
        /\ service.group = "NULL" =>
              \A adds \in PubAdds(service) :
                  LET made == create_service(service, TRUE, adds)
                  IN  /\ ~made.fatal
                      /\ Submitted(made.service,
                                   FirstName(service) + Len(adds) - 1)
        /\ "COLLISION" \in GroupReports(service) =>
              \A adds \in ReportAdds(service, "COLLISION") :
                  LET made == entry_group_callback(service, "COLLISION", adds)
                  IN  /\ ~made.fatal
                      /\ Submitted(made.service, service.name + Len(adds))

\* C17: every collision reported for an advertisement, by the submission or
\* later by the group's state callback, renames it to the alternative of its
\* current name and submits the record again; when collisions stop, a
\* submitted client advertisement gets established, and so does a submitted
\* host advertisement unless it is withdrawn first.
C17_CollisionsRenameAndResubmit ==
    /\ []RenamedPerCollision
    /\ (local_client_service[1].group = "REGISTERING")
          ~> (local_client_service[1].group = "ESTABLISHED")
    /\ (local_host_service[1].group = "REGISTERING")
          ~> (local_host_service[1].group \in {"ESTABLISHED", "NULL"})

\* C17 witness: both advertisements are established under their last
\* alternative names, each after MaxRenames collisions.
C17_Witness ==
    /\ local_client_service[1] = [group |-> "ESTABLISHED", name |-> LastName]
    /\ local_host_service[1] = [group |-> "ESTABLISHED", name |-> LastName]
    /\ Role(1) = "Host"

\* The child side of a launcher: the processes, the one tracked, its watch
\* and what spawn_child last terminated.
ChildState(s) == <<s.procs, s.child_pid, s.child_source, s.kill_log>>

\* Entering SinglePlayer from state s of node n gave state t: the child is
\* left alone when the flag was set, and a single-player process is started
\* and tracked when it was not.
EnteredSinglePlayer(n, t) ==
    IF single_player_running[n]
    THEN ChildState(t) = ChildState(St(n)) /\ t.single_player_running
    ELSE /\ RoleOf(t) = "SinglePlayer"
         /\ t.single_player_running
         /\ \E p \in t.procs : p.pid = t.child_pid /\ p.st = "running"

\* C18: entering SinglePlayer, from an election decision or from the removal
\* of CurrentHost, while the flag says the single-player process is the
\* tracked child neither terminates nor restarts the child; a single-player
\* process is spawned exactly when the flag is not set.  The flag is set only
\* while the tracked child is the single-player process.
C18_NoRestartWhenAlreadySinglePlayer ==
    \A n \in Running :
        /\ single_player_running[n] => Role(n) = "SinglePlayer"
        /\ \A g \in gsources[n], group_ok \in BOOLEAN, adds \in AddResults :
              LET t == AfterTimeout(n, g, group_ok, adds)
              IN  (Fires(n, g) /\ Decision(client_service_list[n]) = "single"
                      /\ t.pc = "loop")
                      => EnteredSinglePlayer(n, t)
        /\ \A ev \in RemoveEvents :
              LET t == AfterBrowse(n, ev)
              IN  (RemovesCurrentHost(n, ev) /\ t.pc = "loop")
                      => EnteredSinglePlayer(n, t)

\* C18 witness: CurrentHost is still set while the single-player process is
\* the tracked child (the join process had exited) and a timer is due: the
\* removal of CurrentHost and the timer both enter SinglePlayer with the
\* flag set.
C18_Witness ==
    /\ single_player_running[1]
    /\ current_host[1] # <<>>
    /\ \E g \in gsources[1] : Fires(1, g)
    /\ Decision(client_service_list[1]) = "single"
    /\ \E p \in procs[1] : p.pid = child_pid[1] /\ p.st = "running"

\* C19: withdrawing is idempotent: an advertisement with no publication group
\* is left as it is, and one with a group is left with no group and the name
\* it had, which a second withdrawal does not change.
C19_WithdrawIdempotent ==
    \A n \in Nodes : \A service \in Services(n) :
        LET once == stop_service(service)
        IN  /\ service.group = "NULL" => once = service
            /\ once = [group |-> "NULL", name |-> service.name]
            /\ stop_service(once) = once

\* C19 witness: the host advertisement has been withdrawn after it was
\* submitted under its last alternative name, which it keeps; the launcher is
\* back in SinglePlayer, where the next entry withdraws it again.
C19_Witness ==
    /\ local_host_service[1] = [group |-> "NULL", name |-> LastName]
    /\ local_client_service[1].group = "ESTABLISHED"
    /\ Role(1) = "SinglePlayer"

\* C20: spawn_child signals and waits for a child that is still there: the
\* pid it last terminated was never one whose exit the child watch had
\* already collected and reported.
C20_NoSignalToExitedChild ==
    \A n \in Nodes : kill_log[n] # "reaped"

\* C21: a launcher in the Host role holds no CurrentHost record: it never
\* hosts while it still records another peer as the host of the session.
C21_HostHoldsNoCurrentHost ==
    \A n \in Nodes :
        (pc[n] = "loop" /\ Role(n) = "Host") => current_host[n] = <<>>

\* The tracked child of node n is a process connect_to_host started (its
\* command line is neither the single-player nor the host one) and it has not
\* exited.
Joined(n) ==
    /\ n \in Running
    /\ Role(n) \in {"Client", "None"}
    /\ \E p \in procs[n] : p.pid = child_pid[n] /\ p.st = "running"

\* C22: while the tracked child is a join process that has not exited,
\* CurrentHost is set and the process was started against the hostname, port
\* and WAD of the record CurrentHost holds now.
C22_ClientJoinsCurrentHost ==
    \A n \in Nodes :
        Joined(n) => /\ current_host[n] # <<>>
                     /\ TrackedArgv(St(n)) = JoinCommand(current_host[n][1])

\* The child spawned last is the single-player process: spawn_child leaves
\* the process it starts as the tracked one, until the next spawn.
LastSpawnIsSinglePlayer(s) ==
    \E p \in s.procs : p.pid = s.child_pid /\ p.argv = SinglePlayerArgv

\* C23: between callbacks the single-player flag is set if and only if the
\* child spawned last is the single-player process; a host spawn, a join
\* spawn and the exit of the tracked child followed by its replacement leave
\* the flag in line with the child.
C23_FlagMeansSinglePlayerChild ==
    \A n \in Nodes :
        single_player_running[n] <=> LastSpawnIsSinglePlayer(St(n))

\* C23 witness: the launcher hosts after the host spawn terminated the
\* single-player child and cleared the flag, and a timer is pending again.
C23_Witness ==
    /\ Role(1) = "Host"
    /\ ~single_player_running[1]
    /\ kill_log[1] = "child"
    /\ TimeoutsOf(St(1)) # {}

====
